---- MODULE Spec2Model ----
(***************************************************************************)
(* A model of src/monitoring.py: class LinuxAutomation, its probes, the    *)
(* aggregator generate_system_report, the text renderer                    *)
(* save_monitoring_report and the ad hoc runner run_command.               *)
(*                                                                         *)
(* The host the script runs on is the variable `host`: one record holding  *)
(* what every external dependency (command, pseudo-file, lookup) answers.  *)
(* Each probe is an operator from the host to the value it returns and the *)
(* log lines it appends; generate_system_report is the sequence of actions *)
(* that evaluates the report's dict literal entry by entry.                *)
(*                                                                         *)
(* Floats are carried as exact rationals [num, den] in lowest terms; byte  *)
(* counts of file systems are carried in MiB (multiples of 2^20 bytes).    *)
(***************************************************************************)
EXTENDS Integers, Sequences, FiniteSets, TLC

VARIABLES host, pc, run, clock, report, result, log, files, trace, cmd_calls

vars == <<host, pc, run, clock, report, result, log, files, trace, cmd_calls>>

(* ------------------------------ bounds --------------------------------- *)

\* Invocations of generate_system_report in one behaviour.
MaxRuns == 2
\* Seconds the wall clock may advance in one behaviour.
MaxClock == 2
\* Records of the user database that are varied together.
MaxUsers == 2
\* Calls of run_command in one behaviour.
MaxCmds == 2

(* --------------------------- arithmetic -------------------------------- *)

RECURSIVE GCD(_, _)
GCD(a, b) == IF b = 0 THEN a ELSE GCD(b, a % b)

\* The rational n/d (d > 0, n >= 0) in lowest terms: the value of a float.
Rat(n, d) == LET g == GCD(n, d) IN [num |-> n \div g, den |-> d \div g]

\* (a/b) * k, reducing before multiplying.
RatTimes(r, k) == LET g == GCD(k, r.den) IN Rat(r.num * (k \div g), r.den \div g)

\* r > k for an integer k.
RatGT(r, k) == r.num > k * r.den

RECURSIVE Pow10(_)
Pow10(n) == IF n = 0 THEN 1 ELSE 10 * Pow10(n - 1)

\* f"{r:.<digits>f}": r rounded to `digits` decimals, ties to even, as the
\* integer number of 10^-digits units ("11.44" is 1144 for digits = 2).
Fmt(r, digits) ==
  LET q  == r.num \div r.den
      m  == (r.num % r.den) * Pow10(digits)
      fq == m \div r.den
      fr == m % r.den
      lo == q * Pow10(digits) + fq
  IN IF 2 * fr > r.den \/ (2 * fr = r.den /\ lo % 2 = 1) THEN lo + 1 ELSE lo

\* a & b on non-negative integers.
RECURSIVE BitAnd(_, _)
BitAnd(a, b) ==
  IF a = 0 \/ b = 0 THEN 0
  ELSE 2 * BitAnd(a \div 2, b \div 2) + (IF a % 2 = 1 /\ b % 2 = 1 THEN 1 ELSE 0)

\* The octal literal 0o<u><g><o>.
Oct(u, g, o) == 64 * u + 8 * g + o

\* Python's None, as a record so that it compares with any dict.
None == [none |-> TRUE]

SeqToSet(s) == {s[i] : i \in DOMAIN s}

RECURSIVE Flatten(_)
Flatten(ss) == IF ss = <<>> THEN <<>> ELSE Head(ss) \o Flatten(Tail(ss))

\* One line of the log (log_message): the message's fixed text and its subject.
Note(msg, arg) == [msg |-> msg, arg |-> arg]
\* A log line that carries a count.
NoteN(msg, n) == [msg |-> msg, n |-> n]

(* ------------------------------ the host ------------------------------- *)

\* disk_usage_check's default paths, check_services' default services,
\* process_monitor's default names, check_failed_logins' candidate files,
\* check_file_permissions' default files.
DiskPaths == <<"/", "/home", "/tmp", "/var">>
Services == <<"ssh", "cron", "NetworkManager", "systemd-resolved">>
ProcessNames == <<"python", "ssh", "cron">>
LogFiles == <<"/var/log/auth.log", "/var/log/secure", "/var/log/messages",
              "/var/log/faillog">>
CriticalFiles == <<"/etc/passwd", "/etc/shadow", "/etc/sudoers",
                   "/etc/ssh/sshd_config", "/etc/crontab">>
LoginShells == {"/bin/bash", "/bin/sh", "/bin/zsh", "/bin/fish", "/usr/bin/bash"}

\* A file system of 10 GiB with `used` MiB in use.
Disk(total, used) ==
  [exists |-> TRUE, raises |-> FALSE, total |-> total, used |-> used,
   free |-> total - used]
NoDisk == [exists |-> FALSE, raises |-> FALSE, total |-> 0, used |-> 0, free |-> 0]

\* One line of /proc/meminfo: "key:   kb kB", or a line without a colon.
MemLine(key, kb) == [colon |-> TRUE, key |-> key, kb |-> kb]
MemGarbage == [colon |-> FALSE, key |-> "", kb |-> 0]
Meminfo(total, free, avail) ==
  [readable |-> TRUE,
   lines |-> <<MemLine("MemTotal", total), MemLine("MemFree", free),
               MemLine("MemAvailable", avail)>>]

\* One record of /etc/passwd, as its colon-separated fields; uid and gid
\* are kept as numbers, and -1 stands for a field int() cannot parse.
PasswdLine(name, uid, shell) ==
  <<name, "x", uid, uid, "", "/home/" \o name, shell>>
NonNumeric == -1

\* One line of an authentication log: whether its lower-cased text contains
\* one of the failure phrases, and the first IPv4-looking substring ("" if
\* none).
LogLine(text, match, ip) == [text |-> text, match |-> match, ip |-> ip]
LogFile(lines) == [exists |-> TRUE, access |-> TRUE, open |-> "ok", lines |-> lines]
NoLogFile == [exists |-> FALSE, access |-> FALSE, open |-> "ok", lines |-> <<>>]

\* One line of lastb's output: its stripped text ("" for a blank line),
\* whether it starts with 'btmp begins', and its first IPv4-looking substring.
LastbLine(text, btmp, ip) == [text |-> text, btmp |-> btmp, ip |-> ip]

\* A critical file with its st_mode permission bits.
Perm(mode) == [exists |-> TRUE, mode |-> mode, owner_ok |-> TRUE, group_ok |-> TRUE]
NoPerm == [exists |-> FALSE, mode |-> 0, owner_ok |-> TRUE, group_ok |-> TRUE]

\* A directory entry the cleanup scan meets: suffix recognised, regular
\* file, age in days, and whether os.stat succeeds.
DirEntry(suffix, isfile, age) ==
  [suffix |-> suffix, isfile |-> isfile, age |-> age, stat_ok |-> TRUE]

\* A host on which every dependency answers.
Healthy ==
  [cat |-> "present",
   dmi_serial |-> [ok |-> TRUE, out |-> "SN-DMI"],
   dmidecode |-> [status |-> "ok", out |-> "SN-DECODE"],
   fqdn |-> [ok |-> TRUE, name |-> "box.example.org"],
   nodename |-> "box",
   uname |-> [release |-> "6.1.0", machine |-> "x86_64"],
   user |-> "root",
   ids |-> [uid |-> 0, gid |-> 0],
   cwd |-> "/root",
   python_version |-> "3.11.2",
   uptime |-> [ok |-> TRUE, seconds |-> 5400],
   loadavg |-> [ok |-> TRUE, avg |-> "0.10 0.20 0.30"],
   os_release |-> [state |-> "ok", pretty |-> "Debian GNU/Linux 12"],
   systemctl |-> [s \in SeqToSet(Services) |->
                    [raises |-> FALSE,
                     out |-> IF s = "NetworkManager" THEN "inactive" ELSE "active"]],
   disk |-> [p \in SeqToSet(DiskPaths) |->
               IF p = "/" THEN Disk(10240, 5120)
               ELSE IF p = "/home" THEN NoDisk
               ELSE Disk(10240, 2560)],
   meminfo |-> Meminfo(16000000, 500000, 4000000),
   ip |-> [status |-> "ok",
           lines |-> << <<"if", "lo">>, <<"inet", "127.0.0.1/8">>,
                        <<"if", "eth0">>, <<"other", "">>,
                        <<"inet", "10.0.0.5/24">> >>],
   pgrep |-> [n \in SeqToSet(ProcessNames) |->
                IF n = "cron" THEN [status |-> "nomatch", pids |-> <<>>]
                ELSE [status |-> "match", pids |-> <<"101", "202">>]],
   passwd |-> [readable |-> TRUE,
               lines |-> << PasswdLine("root", 0, "/bin/bash"),
                            PasswdLine("alice", 1000, "/bin/zsh"),
                            PasswdLine("svc", 1001, "/usr/sbin/nologin") >>],
   homes |-> {"/home/alice"},
   authlogs |-> [f \in SeqToSet(LogFiles) |->
                   IF f = "/var/log/auth.log"
                   THEN LogFile(<< LogLine("Failed password for root", TRUE, "10.9.8.7"),
                                   LogLine("session opened", FALSE, "") >>)
                   ELSE NoLogFile],
   lastb |-> [status |-> "ok",
              lines |-> << LastbLine("root ssh:notty 10.9.8.7", FALSE, "10.9.8.7"),
                           LastbLine("", FALSE, ""),
                           LastbLine("btmp begins Mon", TRUE, "") >>],
   writable |-> {"failed_logins", "system_report", "report_monitoring"},
   perms |-> [f \in SeqToSet(CriticalFiles) |->
                IF f = "/etc/passwd" THEN Perm(Oct(6, 4, 4))
                ELSE IF f = "/etc/shadow" THEN Perm(Oct(6, 0, 0))
                ELSE IF f = "/etc/crontab" THEN NoPerm
                ELSE Perm(Oct(4, 4, 0))],
   logdirs |-> [d \in {"/var/log", "/tmp"} |->
                  [exists |-> TRUE,
                   files |-> IF d = "/var/log"
                             THEN << DirEntry(TRUE, TRUE, 45), DirEntry(TRUE, TRUE, 3),
                                     DirEntry(FALSE, TRUE, 90) >>
                             ELSE << DirEntry(FALSE, TRUE, 10) >>]],
   tempdirs |-> [d \in {"/tmp", "/var/tmp"} |->
                   [exists |-> TRUE, listable |-> TRUE,
                    files |-> IF d = "/tmp"
                              THEN << DirEntry(FALSE, TRUE, 10), DirEntry(FALSE, FALSE, 20) >>
                              ELSE << DirEntry(FALSE, TRUE, 2) >>]]]

(* ------------------------------ probes --------------------------------- *)

\* Every probe returns [value, log]: what the method returns and the lines
\* it appends to the log, in order. A line is kept by its fixed text and its
\* subject; the lines that only echo a value of the result (one per key of
\* system_info, one per interface) are left to the result.

\* get_linux_distribution
get_linux_distribution(h) ==
  IF h.os_release.state = "unreadable" THEN "Unknown Linux Distribution"
  ELSE IF h.os_release.state = "absent" THEN "platform.platform()"
  ELSE IF h.os_release.pretty = "" THEN "Unknown Linux"
  ELSE h.os_release.pretty

\* system_info, the serial number: `cat` of the DMI sysfs file; dmidecode
\* runs only in the except branch, that is when running cat itself raised.
serial_number(h) ==
  IF h.cat = "present"
  THEN (IF h.dmi_serial.ok THEN h.dmi_serial.out ELSE "Unknown")
  ELSE (IF h.dmidecode.status = "ok" THEN h.dmidecode.out ELSE "Unknown")

\* Whether system_info invokes dmidecode.
dmidecode_invoked(h) == h.cat # "present"

system_info(h) ==
  [value |->
     [hostname |-> h.nodename,
      full_hostname |-> IF h.fqdn.ok THEN h.fqdn.name ELSE h.nodename,
      serial_number |-> serial_number(h),
      distribution |-> get_linux_distribution(h),
      kernel |-> h.uname.release,
      architecture |-> h.uname.machine,
      current_user |-> h.user,
      user_id |-> h.ids.uid,
      group_id |-> h.ids.gid,
      current_directory |-> h.cwd,
      python_version |-> h.python_version,
      system_uptime |-> IF h.uptime.ok
                        THEN [known |-> TRUE, hours |-> Fmt(Rat(h.uptime.seconds, 3600), 2)]
                        ELSE [known |-> FALSE, hours |-> 0],
      load_average |-> IF h.loadavg.ok THEN h.loadavg.avg ELSE "Unknown"],
   log |-> <<Note("=== System Information ===", "")>>]

\* check_services
check_services(h) ==
  [value |-> [s \in SeqToSet(Services) |->
                IF h.systemctl[s].raises THEN "Error: e" ELSE h.systemctl[s].out],
   log |-> <<Note("=== Service Status Check ===", "")>>
           \o [i \in 1..Len(Services) |->
                 IF h.systemctl[Services[i]].raises
                 THEN Note("Service: Error checking", Services[i])
                 ELSE Note("Service", Services[i])]]

\* disk_usage_check: usage_percent of one path, (used / total) * 100 on the
\* raw counts.
disk_usage_percent(d) == RatTimes(Rat(d.used, d.total), 100)

\* disk_usage_check: the entry of one path.
disk_entry(d) ==
  [total_gb |-> d.total \div 1024,
   used_gb |-> d.used \div 1024,
   free_gb |-> d.free \div 1024,
   usage_percent |-> disk_usage_percent(d)]

\* disk_usage_check: whether a path gets an entry (it exists, and neither
\* shutil.disk_usage nor the division raises).
disk_has_entry(d) == d.exists /\ ~d.raises /\ d.total # 0

disk_usage_check(h) ==
  [value |-> [p \in {q \in SeqToSet(DiskPaths) : disk_has_entry(h.disk[q])} |->
                disk_entry(h.disk[p])],
   log |-> <<Note("=== Disk Usage Check ===", "")>>
           \o Flatten([i \in 1..Len(DiskPaths) |->
                LET p == DiskPaths[i]
                    d == h.disk[p]
                IN IF ~d.exists THEN <<>>
                   ELSE IF ~disk_has_entry(d)
                   THEN <<Note("Error checking disk usage", p)>>
                   ELSE <<Note("disk", p)>>
                        \o (IF RatGT(disk_usage_percent(d), 80)
                            THEN <<Note("WARNING: usage is above 80%!", p)>>
                            ELSE <<>>)])]

\* memory_check: the dict built from the lines (a later line of a key
\* replaces an earlier one); 0 kb stands for an absent key only through
\* meminfo_has.
meminfo_has(lines, key) == \E i \in DOMAIN lines : lines[i].key = key
meminfo_get(lines, key) ==
  lines[CHOOSE i \in DOMAIN lines :
          /\ lines[i].key = key
          /\ \A j \in DOMAIN lines : lines[j].key = key => j <= i].kb

\* Used memory taken as total minus MemFree.
memory_used_kb_free(total_kb, lines) == total_kb - meminfo_get(lines, "MemFree")

\* memory_check: used_kb.
memory_used_kb(total_kb, lines) == total_kb - meminfo_get(lines, "MemAvailable")

\* A gigabyte taken as 1000 * 1000 kB.
kb_to_gb_decimal(kb) == Rat(kb, 1000 * 1000)

\* memory_check: kB to GB, kb / (1024 * 1024).
kb_to_gb(kb) == Rat(kb, 1024 * 1024)

\* memory_check: whether the try block raises (unreadable file, a line
\* without ':', a missing key, a zero total).
memory_raises(m) ==
  \/ ~m.readable
  \/ \E i \in DOMAIN m.lines : ~m.lines[i].colon
  \/ ~meminfo_has(m.lines, "MemTotal")
  \/ ~meminfo_has(m.lines, "MemAvailable")
  \/ meminfo_get(m.lines, "MemTotal") = 0

\* memory_check: the warning test.
memory_warns(usage_percent) == RatGT(usage_percent, 85)

memory_check(h) ==
  IF memory_raises(h.meminfo)
  THEN [value |-> None,
        log |-> <<Note("=== Memory Usage Check ===", ""),
                  Note("Error checking memory", "")>>]
  ELSE LET total_kb == meminfo_get(h.meminfo.lines, "MemTotal")
           available_kb == meminfo_get(h.meminfo.lines, "MemAvailable")
           used_kb == memory_used_kb(total_kb, h.meminfo.lines)
           usage_percent == RatTimes(Rat(used_kb, total_kb), 100)
       IN [value |-> [total_gb |-> kb_to_gb(total_kb),
                      used_gb |-> kb_to_gb(used_kb),
                      available_gb |-> kb_to_gb(available_kb),
                      usage_percent |-> usage_percent],
           log |-> <<Note("=== Memory Usage Check ===", ""), Note("memory", "")>>
                   \o (IF memory_warns(usage_percent)
                       THEN <<Note("WARNING: Memory usage is above 85%!", "")>>
                       ELSE <<>>)]

\* network_interfaces: the loop over the lines of `ip addr show`. A line is
\* <<"if", name>> (matches ^\d+: and has a second token, name already
\* stripped of ':'), <<"ifbad", "">> (matches ^\d+: and has no second token:
\* parts[1] raises), <<"inet", addr>> (contains 'inet ' followed by a
\* token), <<"inetbad", "">> (contains 'inet ' and no token follows) or
\* <<"other", "">>. The state is the ordered dict as a sequence of
\* [name, addresses], current_interface ("" for None or an empty name, both
\* falsy) and whether the loop raised.
if_index(ifs, name) == CHOOSE i \in DOMAIN ifs : ifs[i].name = name
\* Opening a name again keeps the addresses it already has.
if_open_keep(ifs, name) ==
  IF \E i \in DOMAIN ifs : ifs[i].name = name
  THEN ifs
  ELSE Append(ifs, [name |-> name, addresses |-> <<>>])

if_open(ifs, name) ==
  IF \E i \in DOMAIN ifs : ifs[i].name = name
  THEN [ifs EXCEPT ![if_index(ifs, name)].addresses = <<>>]
  ELSE Append(ifs, [name |-> name, addresses |-> <<>>])

RECURSIVE parse_ip(_, _, _)
parse_ip(lines, ifs, current) ==
  IF lines = <<>> THEN [ifs |-> ifs, raised |-> FALSE]
  ELSE LET line == Head(lines)
       IN IF line[1] = "ifbad" THEN [ifs |-> ifs, raised |-> TRUE]
          ELSE IF line[1] = "if"
          THEN parse_ip(Tail(lines), if_open(ifs, line[2]), line[2])
          ELSE IF line[1] = "inet" /\ current # ""
          THEN parse_ip(Tail(lines),
                        [ifs EXCEPT ![if_index(ifs, current)].addresses =
                                        Append(@, line[2])],
                        current)
          ELSE parse_ip(Tail(lines), ifs, current)

network_interfaces(h) ==
  IF h.ip.status = "missing"
  THEN [value |-> <<>>,
        log |-> <<Note("=== Network Interfaces ===", ""),
                  Note("Error getting network interfaces", "")>>]
  ELSE IF h.ip.status = "fail"
  THEN [value |-> <<>>, log |-> <<Note("=== Network Interfaces ===", "")>>]
  ELSE LET r == parse_ip(h.ip.lines, <<>>, "")
       IN [value |-> r.ifs,
           log |-> <<Note("=== Network Interfaces ===", "")>>
                   \o (IF r.raised
                       THEN <<Note("Error getting network interfaces", "")>>
                       ELSE <<>>)]

\* process_monitor
process_monitor(h) ==
  [value |-> [n \in {m \in SeqToSet(ProcessNames) : h.pgrep[m].status # "raise"} |->
                IF h.pgrep[n].status = "match"
                THEN [running |-> TRUE, pids |-> h.pgrep[n].pids,
                      count |-> Len(h.pgrep[n].pids)]
                ELSE [running |-> FALSE, pids |-> <<>>, count |-> 0]],
   log |-> <<Note("=== Process Monitoring ===", "")>>
           \o [i \in 1..Len(ProcessNames) |->
                 LET n == ProcessNames[i]
                 IN IF h.pgrep[n].status = "raise"
                    THEN Note("Error monitoring process", n)
                    ELSE IF h.pgrep[n].status = "match"
                    THEN Note("Process: Running", n)
                    ELSE Note("Process: Not running", n)]]

\* A regular user must have a uid above 1000.
list_users_regular_gt(u) == u.uid > 1000 /\ u.can_login

\* list_users: the three comprehensions that classify the users.
list_users_regular(u) == u.uid >= 1000 /\ u.can_login
list_users_system(u) == u.uid < 1000
list_users_service(u) == u.uid >= 1000 /\ ~u.can_login

\* list_users: the dict of one record of at least 7 fields.
user_info(parts, homes) ==
  [username |-> parts[1], uid |-> parts[3], gid |-> parts[4],
   description |-> parts[5], home_dir |-> parts[6], shell |-> parts[7],
   can_login |-> parts[7] \in LoginShells,
   home_exists |-> parts[6] \in homes]

\* list_users: the loop over the lines; a line is its fields (<<>> for a
\* blank line). int() of a non-numeric uid or gid raises, which leaves the
\* loop, the users appended so far staying in users_info.
RECURSIVE parse_passwd(_, _, _)
parse_passwd(lines, homes, users) ==
  IF lines = <<>> THEN [users |-> users, raised |-> FALSE]
  ELSE LET parts == Head(lines)
       IN IF Len(parts) < 7 THEN parse_passwd(Tail(lines), homes, users)
          ELSE IF parts[3] = NonNumeric \/ parts[4] = NonNumeric
          THEN [users |-> users, raised |-> TRUE]
          ELSE parse_passwd(Tail(lines), homes, Append(users, user_info(parts, homes)))

list_users(h) ==
  IF ~h.passwd.readable
  THEN [value |-> <<>>,
        log |-> <<Note("=== System Users ===", ""),
                  Note("Error reading user information", "")>>]
  ELSE LET r == parse_passwd(h.passwd.lines, h.homes, <<>>)
       IN [value |-> r.users,
           log |-> <<Note("=== System Users ===", "")>>
                   \o [i \in 1..Len(r.users) |-> Note("User", r.users[i].username)]
                   \o (IF r.raised
                       THEN <<Note("Error reading user information", "")>>
                       ELSE <<NoteN("Total users", Len(r.users)),
                              NoteN("Regular users",
                                    Len(SelectSeq(r.users, list_users_regular))),
                              NoteN("System users",
                                    Len(SelectSeq(r.users, list_users_system))),
                              NoteN("Service users",
                                    Len(SelectSeq(r.users, list_users_service)))>>)]

\* check_failed_logins: whether a candidate file is opened at all.
log_file_opened(f) == f.exists /\ f.access

\* check_failed_logins: the entries one candidate file contributes. `ip` is
\* not a key of the entry: it is what re.search finds in `entry` later.
log_file_attempts(name, f, now) ==
  IF log_file_opened(f) /\ f.open = "ok"
  THEN LET hits == SelectSeq(f.lines, LAMBDA l : l.match)
       IN [i \in 1..Len(hits) |->
             [log_file |-> name, entry |-> hits[i].text, ip |-> hits[i].ip,
              timestamp |-> now]]
  ELSE <<>>

\* check_failed_logins: the log lines one candidate file causes.
log_file_notes(name, f) ==
  IF ~log_file_opened(f) THEN <<>>
  ELSE <<Note("Checking", name)>>
       \o (IF f.open = "EACCES" THEN <<Note("Permission denied accessing", name)>>
           ELSE IF f.open = "ok" THEN <<>>
           ELSE <<Note("Error reading", name)>>)

\* check_failed_logins: the lines of lastb's output that count as entries.
lastb_entries(lb) ==
  IF lb.status = "ok"
  THEN SelectSeq(lb.lines, LAMBDA l : l.text # "" /\ ~l.btmp)
  ELSE <<>>
lastb_attempts(lb, now) ==
  LET es == lastb_entries(lb)
  IN [i \in 1..Len(es) |->
        [source |-> "lastb", entry |-> es[i].text, ip |-> es[i].ip,
         timestamp |-> now]]
lastb_notes(lb) ==
  IF lb.status = "missing" THEN <<Note("Could not run 'lastb' command", "")>>
  ELSE IF lb.status = "ok" /\ \E i \in DOMAIN lb.lines : lb.lines[i].text # ""
  THEN <<Note("Recent failed login attempts from 'lastb' command:", "")>>
       \o [i \in 1..Len(lastb_entries(lb)) |->
             Note("Failed login", lastb_entries(lb)[i].text)]
  ELSE <<>>

\* check_failed_logins: failed_attempts after the candidate files and lastb.
failed_attempts(h, now) ==
  Flatten([i \in 1..Len(LogFiles) |->
             log_file_attempts(LogFiles[i], h.authlogs[LogFiles[i]], now)])
  \o lastb_attempts(h.lastb, now)

\* check_failed_logins: whether the auxiliary artifact is opened for writing.
aux_written(attempts) == attempts # <<>>

\* check_failed_logins. `raised`: open(report_file, 'w') raised, which no
\* handler of the method catches; `artifact` is what is written (<<>> when
\* nothing is).
check_failed_logins(h, now) ==
  LET attempts == failed_attempts(h, now)
      scan == <<Note("=== Checking failed logins ===", "")>>
              \o Flatten([i \in 1..Len(LogFiles) |->
                            log_file_notes(LogFiles[i], h.authlogs[LogFiles[i]])])
              \o lastb_notes(h.lastb)
      sources == {attempts[i].ip : i \in DOMAIN attempts} \ {""}
  IN IF ~aux_written(attempts)
     THEN [value |-> attempts, raised |-> FALSE, artifact |-> <<>>,
           log |-> scan \o <<Note("No failed login attempts found", "")>>]
     ELSE IF "failed_logins" \notin h.writable
     THEN [value |-> <<>>, raised |-> TRUE, artifact |-> <<>>,
           log |-> scan \o <<NoteN("ALERT: Found failed login attempts", Len(attempts))>>]
     ELSE [value |-> attempts, raised |-> FALSE,
           artifact |-> << [name |-> <<"failed_logins", now>>, body |-> attempts] >>,
           log |-> scan
                   \o <<NoteN("ALERT: Found failed login attempts", Len(attempts)),
                        Note("Detailed report saved to", "failed_logins")>>
                   \o (IF sources # {}
                       THEN <<NoteN("Failed attempts from unique sources",
                                    Cardinality(sources))>>
                       ELSE <<>>)]

\* check_file_permissions: the two policy tests on st_mode.
shadow_flagged(mode) == BitAnd(mode, Oct(0, 7, 7)) # 0
passwd_flagged(mode) == BitAnd(mode, Oct(0, 0, 2)) # 0

\* check_file_permissions: whether the body of the try raises for a file
\* (pwd.getpwuid or grp.getgrgid finds no entry).
perm_raises(f) == f.exists /\ (~f.owner_ok \/ ~f.group_ok)

\* check_file_permissions: the findings one file contributes.
perm_findings(path, f) ==
  IF ~f.exists \/ perm_raises(f) THEN <<>>
  ELSE IF path = "/etc/shadow" /\ shadow_flagged(f.mode)
  THEN <<Note("is readable by others", path)>>
  ELSE IF path = "/etc/passwd" /\ passwd_flagged(f.mode)
  THEN <<Note("is writable by others", path)>>
  ELSE <<>>

\* check_file_permissions: the log line one file causes.
perm_note(path, f) ==
  IF ~f.exists THEN Note("File not found", path)
  ELSE IF perm_raises(f) THEN Note("Error checking", path)
  ELSE Note("mode owner:group", path)

check_file_permissions(h) ==
  LET issues == Flatten([i \in 1..Len(CriticalFiles) |->
                           perm_findings(CriticalFiles[i], h.perms[CriticalFiles[i]])])
  IN [value |-> issues,
      log |-> <<Note("=== Critical File Permissions ===", "")>>
              \o [i \in 1..Len(CriticalFiles) |->
                    perm_note(CriticalFiles[i], h.perms[CriticalFiles[i]])]
              \o (IF issues # <<>>
                  THEN <<Note("SECURITY WARNINGS:", "")>> \o issues
                  ELSE <<>>)]

\* system_cleanup: the old log files of one walked directory, the old
\* temporary files of one listed directory (ages in days).
old_logs_in(d) ==
  IF d.exists
  THEN Len(SelectSeq(d.files, LAMBDA e : e.suffix /\ e.stat_ok /\ e.age > 30))
  ELSE 0
temp_files_in(d) ==
  IF d.exists /\ d.listable
  THEN Len(SelectSeq(d.files, LAMBDA e : e.isfile /\ e.stat_ok /\ e.age > 7))
  ELSE 0

system_cleanup(h) ==
  LET old_logs == old_logs_in(h.logdirs["/var/log"]) + old_logs_in(h.logdirs["/tmp"])
      temp_files == temp_files_in(h.tempdirs["/tmp"]) + temp_files_in(h.tempdirs["/var/tmp"])
  IN [value |-> [old_logs |-> old_logs, temp_files |-> temp_files, package_cache |-> 0],
      log |-> <<Note("=== System Cleanup ===", "")>>
              \o [i \in 1..old_logs |-> Note("Old log file found", "")]
              \o Flatten([i \in 1..2 |->
                   LET d == h.tempdirs[<<"/tmp", "/var/tmp">>[i]]
                   IN IF d.exists /\ ~d.listable
                      THEN <<Note("Error checking", <<"/tmp", "/var/tmp">>[i])>>
                      ELSE <<>>])
              \o <<NoteN("Old log files", old_logs), NoteN("Old temp files", temp_files)>>]

(* ---------------------------- the renderer ------------------------------ *)

\* A disk warning from 80% on, the threshold included.
text_disk_warns_ge(disk_info) ==
  disk_info.usage_percent.num >= 80 * disk_info.usage_percent.den

\* save_monitoring_report: the warning tests of the Memory and Disk sections.
text_memory_warns(mem) == RatGT(mem.usage_percent, 85)
text_disk_warns(disk_info) == RatGT(disk_info.usage_percent, 80)

\* save_monitoring_report: the three comprehensions of the Users section.
text_regular(u) == u.uid >= 1000 /\ u.can_login
text_system(u) == u.uid < 1000
text_service(u) == u.uid >= 1000 /\ ~u.can_login

\* service_users[:10]
ServiceUsersShown == 10
FirstN(s, n) == IF Len(s) <= n THEN s ELSE SubSeq(s, 1, n)

\* save_monitoring_report: the Memory section; `if mem:` skips a None.
text_memory(mem) ==
  IF mem = None THEN [shown |-> FALSE]
  ELSE [shown |-> TRUE,
        total |-> Fmt(mem.total_gb, 2),
        used |-> Fmt(mem.used_gb, 2),
        available |-> Fmt(mem.available_gb, 2),
        usage |-> Fmt(mem.usage_percent, 1),
        warning |-> text_memory_warns(mem)]

\* save_monitoring_report: the Disk Usage section, one entry per item.
text_disk(disk) ==
  [p \in DOMAIN disk |->
     [total |-> disk[p].total_gb, used |-> disk[p].used_gb, free |-> disk[p].free_gb,
      usage |-> Fmt(disk[p].usage_percent, 1),
      warning |-> text_disk_warns(disk[p])]]

\* save_monitoring_report: the Users section; `if users:` skips an empty list.
text_users(users) ==
  IF users = <<>> THEN [available |-> FALSE]
  ELSE LET regular_users == SelectSeq(users, text_regular)
           system_users == SelectSeq(users, text_system)
           service_users == SelectSeq(users, text_service)
       IN [available |-> TRUE,
           total |-> Len(users),
           regular |-> Len(regular_users),
           system |-> Len(system_users),
           service |-> Len(service_users),
           regular_listed |-> [i \in 1..Len(regular_users) |-> regular_users[i].username],
           service_listed |-> LET shown == FirstN(service_users, ServiceUsersShown)
                              IN [i \in 1..Len(shown) |-> shown[i].username],
           more |-> IF Len(service_users) > ServiceUsersShown
                    THEN Len(service_users) - ServiceUsersShown ELSE 0]

\* save_monitoring_report: the text written to report_monitoring.txt.
render_text(rep, now) ==
  [timestamp |-> now,
   system_info |-> rep.system_info,
   memory |-> text_memory(rep.memory_usage),
   disk |-> text_disk(rep.disk_usage),
   process |-> rep.process_status,
   service |-> rep.service_status,
   users |-> text_users(rep.users),
   security |-> [failed_logins |-> rep.security_check.failed_logins,
                 warnings |-> rep.security_check.permission_issues,
                 no_issues |-> rep.security_check.permission_issues = <<>>],
   cleanup |-> rep.cleanup_recommendations,
   network |-> [available |-> rep.network_interfaces # <<>>,
                interfaces |-> rep.network_interfaces]]

(* --------------------------- run_command -------------------------------- *)

\* What subprocess.run does for a command: it exits with a status and the
\* captured streams, it runs into the timeout, or it raises otherwise.
Exit(rc, out, err) == [kind |-> "exit", rc |-> rc, stdout |-> out, stderr |-> err]
TimedOut == [kind |-> "timeout", rc |-> 0, stdout |-> "", stderr |-> ""]
ExecError == [kind |-> "error", rc |-> 0, stdout |-> "", stderr |-> ""]
CmdOutcomes ==
  {Exit(rc, out, err) : rc \in {0, 1, 2}, out \in {"", "out"}, err \in {"", "err"}}
  \cup {TimedOut, ExecError}

\* run_command: the value returned, a str or None.
run_command_returns(o) ==
  IF o.kind = "exit" /\ o.rc = 0 THEN [str |-> o.stdout] ELSE None

\* run_command: the line logged.
run_command_note(o) ==
  IF o.kind = "timeout" THEN Note("Command timed out", "")
  ELSE IF o.kind = "error" THEN Note("Error executing command", "")
  ELSE IF o.rc = 0 THEN Note("Command output", o.stdout)
  ELSE [msg |-> "Command failed (exit code)", arg |-> o.stderr, n |-> o.rc]

(* ----------------------- generate_system_report ------------------------- *)

\* The entry of the dict literal that is not evaluated yet.
Unset == [unset |-> TRUE]

\* What generate_system_report has not returned yet, and the exception that
\* leaves it.
Pending == [pending |-> TRUE]
Raised == [raised |-> TRUE]

NewReport(now) ==
  [timestamp |-> now,
   system_info |-> Unset, disk_usage |-> Unset, memory_usage |-> Unset,
   network_interfaces |-> Unset, process_status |-> Unset,
   service_status |-> Unset, users |-> Unset,
   security_check |-> [failed_logins |-> Unset, permission_issues |-> Unset],
   cleanup_recommendations |-> Unset]

\* The artifact names: system_report_<stamp>.json, failed_logins_<stamp>.json
\* and the fixed report_monitoring.txt (stamp 0).
ReportName(now) == <<"system_report", now>>
TextName == <<"report_monitoring.txt", 0>>

\* open(name, 'w') followed by the dump: the file is created or replaced.
WriteFile(fs, name, content) == (name :> content) @@ fs

\* One probe of the dict literal has run.
Step(probe, next, r) ==
  /\ log' = log \o r.log
  /\ trace' = Append(trace, probe)
  /\ pc' = next
  /\ UNCHANGED <<host, run, clock, result, cmd_calls>>

Invoke ==
  /\ pc = "idle"
  /\ run < MaxRuns
  /\ run' = run + 1
  /\ report' = NewReport(clock)
  /\ result' = Pending
  /\ trace' = <<>>
  /\ log' = log \o <<Note("=== Generating System Report ===", "")>>
  /\ pc' = "system_info"
  /\ UNCHANGED <<host, clock, files, cmd_calls>>

SystemInfo ==
  /\ pc = "system_info"
  /\ report' = [report EXCEPT !.system_info = system_info(host).value]
  /\ Step("system_info", "disk_usage", system_info(host))
  /\ UNCHANGED files

DiskUsage ==
  /\ pc = "disk_usage"
  /\ report' = [report EXCEPT !.disk_usage = disk_usage_check(host).value]
  /\ Step("disk_usage", "memory", disk_usage_check(host))
  /\ UNCHANGED files

Memory ==
  /\ pc = "memory"
  /\ report' = [report EXCEPT !.memory_usage = memory_check(host).value]
  /\ Step("memory", "network_interfaces", memory_check(host))
  /\ UNCHANGED files

Network ==
  /\ pc = "network_interfaces"
  /\ report' = [report EXCEPT !.network_interfaces = network_interfaces(host).value]
  /\ Step("network_interfaces", "process_monitor", network_interfaces(host))
  /\ UNCHANGED files

Process ==
  /\ pc = "process_monitor"
  /\ report' = [report EXCEPT !.process_status = process_monitor(host).value]
  /\ Step("process_monitor", "services", process_monitor(host))
  /\ UNCHANGED files

ServicesStep ==
  /\ pc = "services"
  /\ report' = [report EXCEPT !.service_status = check_services(host).value]
  /\ Step("services", "list_users", check_services(host))
  /\ UNCHANGED files

Users ==
  /\ pc = "list_users"
  /\ report' = [report EXCEPT !.users = list_users(host).value]
  /\ Step("list_users", "failed_logins", list_users(host))
  /\ UNCHANGED files

\* len(self.check_failed_logins()): an exception of the probe leaves
\* generate_system_report, which has no handler.
FailedLogins ==
  /\ pc = "failed_logins"
  /\ LET r == check_failed_logins(host, clock)
     IN /\ files' = IF r.artifact = <<>> THEN files
                    ELSE WriteFile(files, r.artifact[1].name,
                                   [run |-> run, body |-> r.artifact[1].body])
        /\ log' = log \o r.log
        /\ trace' = Append(trace, "failed_logins")
        /\ IF r.raised
           THEN /\ pc' = "idle"
                /\ result' = Raised
                /\ UNCHANGED report
           ELSE /\ pc' = "file_permissions"
                /\ report' = [report EXCEPT !.security_check.failed_logins =
                                              Len(r.value)]
                /\ UNCHANGED result
  /\ UNCHANGED <<host, run, clock, cmd_calls>>

FilePermissions ==
  /\ pc = "file_permissions"
  /\ report' = [report EXCEPT !.security_check.permission_issues =
                                check_file_permissions(host).value]
  /\ Step("file_permissions", "cleanup_scan", check_file_permissions(host))
  /\ UNCHANGED files

Cleanup ==
  /\ pc = "cleanup_scan"
  /\ report' = [report EXCEPT !.cleanup_recommendations = system_cleanup(host).value]
  /\ Step("cleanup_scan", "write_json", system_cleanup(host))
  /\ UNCHANGED files

\* with open(report_file, 'w') as f: json.dump(report, f, ...)
WriteJson ==
  /\ pc = "write_json"
  /\ IF "system_report" \in host.writable
     THEN /\ files' = WriteFile(files, ReportName(clock), [run |-> run, body |-> report])
          /\ log' = log \o <<Note("System report saved to", "system_report")>>
          /\ trace' = Append(trace, "structured_renderer")
          /\ pc' = "save_text"
          /\ UNCHANGED result
     ELSE /\ pc' = "idle"
          /\ result' = Raised
          /\ UNCHANGED <<files, log, trace>>
  /\ UNCHANGED <<host, run, clock, report, cmd_calls>>

\* save_monitoring_report(report), then return report.
SaveText ==
  /\ pc = "save_text"
  /\ IF "report_monitoring" \in host.writable
     THEN /\ files' = WriteFile(files, TextName,
                                [run |-> run, body |-> render_text(report, clock)])
          /\ log' = log \o <<Note("Monitoring report saved to", "report_monitoring.txt")>>
          /\ trace' = Append(trace, "text_renderer")
          /\ result' = report
     ELSE /\ result' = Raised
          /\ UNCHANGED <<files, log, trace>>
  /\ pc' = "idle"
  /\ UNCHANGED <<host, run, clock, report, cmd_calls>>

\* The wall clock reaches the next second.
Tick ==
  /\ clock < MaxClock
  /\ clock' = clock + 1
  /\ UNCHANGED <<host, pc, run, report, result, log, files, trace, cmd_calls>>

\* run_command(command, timeout)
RunCommand ==
  /\ pc = "idle"
  /\ Len(cmd_calls) < MaxCmds
  /\ \E o \in CmdOutcomes :
       /\ cmd_calls' = Append(cmd_calls, [outcome |-> o, returned |-> run_command_returns(o)])
       /\ log' = log \o <<Note("=== Executing command ===", ""), run_command_note(o)>>
  /\ UNCHANGED <<host, pc, run, clock, report, result, files, trace>>

(* ------------------------------ the hosts ------------------------------- *)

\* The single failures of a dependency, each with the probe that owns it.
Faults ==
  {"cat_missing", "dmi_unreadable", "dmidecode_missing", "fqdn_raises",
   "uptime_unreadable", "loadavg_raises", "os_release_unreadable",
   "disk_usage_raises", "meminfo_unreadable", "ip_missing", "pgrep_missing",
   "systemctl_missing", "passwd_unreadable", "auth_log_unreadable",
   "lastb_missing", "aux_not_writable", "owner_lookup_raises",
   "listdir_raises"}

FaultOwner(f) ==
  IF f \in {"cat_missing", "dmi_unreadable", "dmidecode_missing", "fqdn_raises",
            "uptime_unreadable", "loadavg_raises", "os_release_unreadable"}
  THEN "system_info"
  ELSE IF f = "disk_usage_raises" THEN "disk_usage"
  ELSE IF f = "meminfo_unreadable" THEN "memory_usage"
  ELSE IF f = "ip_missing" THEN "network_interfaces"
  ELSE IF f = "pgrep_missing" THEN "process_status"
  ELSE IF f = "systemctl_missing" THEN "service_status"
  ELSE IF f = "passwd_unreadable" THEN "users"
  ELSE IF f \in {"auth_log_unreadable", "lastb_missing", "aux_not_writable"}
  THEN "failed_logins"
  ELSE IF f = "owner_lookup_raises" THEN "permission_issues"
  ELSE "cleanup_recommendations"

\* The host h with the dependency of fault f failing.
Inject(h, f) ==
  IF f = "cat_missing" THEN [h EXCEPT !.cat = "missing"]
  ELSE IF f = "dmi_unreadable" THEN [h EXCEPT !.dmi_serial = [ok |-> FALSE, out |-> ""]]
  ELSE IF f = "dmidecode_missing"
  THEN [h EXCEPT !.dmidecode = [status |-> "missing", out |-> ""]]
  ELSE IF f = "fqdn_raises" THEN [h EXCEPT !.fqdn.ok = FALSE]
  ELSE IF f = "uptime_unreadable" THEN [h EXCEPT !.uptime.ok = FALSE]
  ELSE IF f = "loadavg_raises" THEN [h EXCEPT !.loadavg.ok = FALSE]
  ELSE IF f = "os_release_unreadable" THEN [h EXCEPT !.os_release.state = "unreadable"]
  ELSE IF f = "disk_usage_raises" THEN [h EXCEPT !.disk["/"].raises = TRUE]
  ELSE IF f = "meminfo_unreadable" THEN [h EXCEPT !.meminfo.readable = FALSE]
  ELSE IF f = "ip_missing" THEN [h EXCEPT !.ip.status = "missing"]
  ELSE IF f = "pgrep_missing"
  THEN [h EXCEPT !.pgrep = [n \in SeqToSet(ProcessNames) |->
                              [status |-> "raise", pids |-> <<>>]]]
  ELSE IF f = "systemctl_missing"
  THEN [h EXCEPT !.systemctl = [s \in SeqToSet(Services) |->
                                  [raises |-> TRUE, out |-> ""]]]
  ELSE IF f = "passwd_unreadable" THEN [h EXCEPT !.passwd.readable = FALSE]
  ELSE IF f = "auth_log_unreadable"
  THEN [h EXCEPT !.authlogs["/var/log/auth.log"].access = FALSE]
  ELSE IF f = "lastb_missing" THEN [h EXCEPT !.lastb.status = "missing"]
  ELSE IF f = "aux_not_writable" THEN [h EXCEPT !.writable = @ \ {"failed_logins"}]
  ELSE IF f = "owner_lookup_raises"
  THEN [h EXCEPT !.perms["/etc/passwd"].owner_ok = FALSE]
  ELSE [h EXCEPT !.tempdirs["/tmp"].listable = FALSE]

FaultHosts == {Inject(Healthy, f) : f \in Faults}

\* The serial-number strategies, each succeeding or failing.
SysHosts ==
  {[Healthy EXCEPT !.cat = c, !.dmi_serial.ok = d, !.dmidecode.status = x] :
     c \in {"present", "missing"}, d \in BOOLEAN, x \in {"ok", "fail", "missing"}}
  \cup {[Healthy EXCEPT !.os_release = o] :
          o \in {[state |-> "absent", pretty |-> ""], [state |-> "ok", pretty |-> ""]}}

\* File systems of up to MaxMiB MiB at every fill level, and file systems of
\* several GiB around the threshold.
MaxMiB == 10
DiskCases ==
  {Disk(t, u) : t \in 1..MaxMiB, u \in 0..MaxMiB} \cup
  {Disk(10240, u) : u \in {8192, 8193, 8704, 9000, 10240}} \cup
  {Disk(0, 0), NoDisk}
DiskHosts ==
  {[Healthy EXCEPT !.disk["/"] = d] : d \in {c \in DiskCases : c.used <= c.total}}

\* Memory of up to MaxKb kB at every level of MemAvailable, with MemFree
\* below MemAvailable; the two inputs of the specification's example; a
\* file without MemAvailable; a line without a colon.
MaxKb == 20
MemCases ==
  {Meminfo(t, a \div 2, a) : t \in 1..MaxKb, a \in 0..MaxKb} \cup
  {Meminfo(16000000, 500000, 4000000), Meminfo(16000000, 500000, 1000000),
   Meminfo(16000000, 2400000, 2400000), Meminfo(16000000, 0, 2399999),
   Meminfo(1048576, 0, 917504)}
MemHosts ==
  {[Healthy EXCEPT !.meminfo = m] :
     m \in {c \in MemCases : c.lines[3].kb <= c.lines[1].kb}}
  \cup {[Healthy EXCEPT !.meminfo.lines = l] :
          l \in {<<MemLine("MemTotal", 8), MemLine("MemFree", 2)>>,
                 <<MemLine("MemTotal", 0), MemLine("MemAvailable", 0)>>,
                 <<MemLine("MemTotal", 8), MemGarbage, MemLine("MemAvailable", 2)>>,
                 <<MemLine("MemTotal", 8), MemLine("MemAvailable", 2),
                   MemLine("MemAvailable", 1)>>}}

\* User databases of up to MaxUsers lines.
PasswdLines ==
  {PasswdLine("u", uid, sh) :
     uid \in {0, 999, 1000, 1001}, sh \in {"/bin/bash", "/usr/sbin/nologin"}}
  \cup {<<>>, <<"short", "x", 5>>, PasswdLine("bad", NonNumeric, "/bin/sh")}
RECURSIVE SeqsUpTo(_, _)
SeqsUpTo(S, n) ==
  IF n = 0 THEN {<<>>}
  ELSE LET shorter == SeqsUpTo(S, n - 1)
       IN shorter \cup {Append(q, x) : q \in shorter, x \in S}
UserHosts == {[Healthy EXCEPT !.passwd.lines = l] : l \in SeqsUpTo(PasswdLines, MaxUsers)}

\* Modes of the shadow and of the password file; missing files; a failing
\* owner lookup.
PermHosts ==
  {[Healthy EXCEPT !.perms["/etc/shadow"] = Perm(Oct(6, g, o))] : g \in 0..7, o \in 0..7}
  \cup {[Healthy EXCEPT !.perms["/etc/passwd"] = Perm(Oct(6, g, o))] : g \in 0..7, o \in 0..7}
  \cup {[Healthy EXCEPT !.perms["/etc/shadow"] = p] :
          p \in {NoPerm, [Perm(Oct(6, 4, 4)) EXCEPT !.owner_ok = FALSE],
                 [Perm(Oct(6, 4, 4)) EXCEPT !.group_ok = FALSE]}}
  \cup {[Healthy EXCEPT !.perms["/etc/passwd"] = NoPerm]}

\* States of the first two candidate log files and of lastb.
LogCases ==
  {[exists |-> e, access |-> a, open |-> o,
    lines |-> <<LogLine("Invalid user admin from 10.1.1.1", TRUE, "10.1.1.1")>>] :
     e \in BOOLEAN, a \in BOOLEAN, o \in {"ok", "EACCES", "EIO"}}
LogHosts ==
  {[Healthy EXCEPT !.authlogs["/var/log/auth.log"] = f,
                   !.authlogs["/var/log/secure"] = g,
                   !.lastb = b] :
     f \in {c \in LogCases : c.exists \/ (~c.access /\ c.open = "ok")},
     g \in {NoLogFile, LogFile(<<LogLine("authentication failure", TRUE, "")>>)},
     b \in {Healthy.lastb, [status |-> "fail", lines |-> <<>>],
            [status |-> "missing", lines |-> <<>>],
            [status |-> "ok", lines |-> <<LastbLine("", FALSE, "")>>]}}

\* Commands that are missing or find nothing, artifacts that cannot be
\* written, interface listings that fail or break off.
OtherHosts ==
  {[Healthy EXCEPT !.pgrep["python"].status = x, !.pgrep["ssh"].status = y] :
     x \in {"match", "nomatch", "raise"}, y \in {"match", "nomatch", "raise"}}
  \cup {[Healthy EXCEPT !.systemctl["ssh"] = x] :
          x \in {[raises |-> TRUE, out |-> ""], [raises |-> FALSE, out |-> "failed"]}}
  \cup {[Healthy EXCEPT !.writable = w] :
          w \in SUBSET {"failed_logins", "system_report", "report_monitoring"}}
  \cup {[Healthy EXCEPT !.ip = x] :
          x \in {[status |-> "fail", lines |-> <<>>],
                 [status |-> "ok",
                  lines |-> << <<"inet", "10.0.0.1/8">>, <<"if", "lo">>,
                               <<"inet", "127.0.0.1/8">>, <<"ifbad", "">>,
                               <<"if", "eth0">> >>]}}

\* Listings of `ip addr show` of up to MaxLines lines: index lines of two
\* interfaces, address lines, an 'inet ' line with no token after it, and
\* lines of neither sort (link/ether, inet6, valid_lft).
MaxLines == 4
IpLines ==
  { <<"if", "lo">>, <<"if", "eth0">>, <<"inet", "127.0.0.1/8">>,
    <<"inet", "10.0.0.5/24">>, <<"inetbad", "">>, <<"other", "">> }
NetHosts ==
  {[Healthy EXCEPT !.ip = [status |-> "ok", lines |-> l]] :
     l \in SeqsUpTo(IpLines, MaxLines)}

Hosts ==
  {Healthy} \cup FaultHosts \cup SysHosts \cup DiskHosts \cup MemHosts
  \cup UserHosts \cup PermHosts \cup LogHosts \cup OtherHosts \cup NetHosts

\* The hosts on which the script is run again and again.
RunHosts == {Healthy, Inject(Healthy, "aux_not_writable"),
             [Healthy EXCEPT !.authlogs["/var/log/auth.log"] = NoLogFile,
                             !.lastb.status = "fail"]}

(* --------------------------- specifications ----------------------------- *)

Start(hs) ==
  /\ host \in hs
  /\ pc = "idle"
  /\ run = 0
  /\ clock = 0
  /\ report = Unset
  /\ result = Pending
  /\ log = <<>>
  /\ files = <<>>
  /\ trace = <<>>
  /\ cmd_calls = <<>>

\* One run of the script on any host.
Init == Start(Hosts)

InvokeOnce == run = 0 /\ Invoke

Probes ==
  \/ SystemInfo \/ DiskUsage \/ Memory \/ Network \/ Process \/ ServicesStep
  \/ Users \/ FailedLogins \/ FilePermissions \/ Cleanup
  \/ WriteJson \/ SaveText

Next == InvokeOnce \/ Probes

Spec == Init /\ [][Next]_vars

\* Repeated runs of the script while the clock advances.
InitRuns == Start(RunHosts)

NextRuns == Invoke \/ Probes \/ Tick

SpecRuns == InitRuns /\ [][NextRuns]_vars

\* Calls of run_command.
InitCmd == Start({Healthy})

NextCmd == RunCommand

SpecCmd == InitCmd /\ [][NextCmd]_vars

(* -------------------------------- claims -------------------------------- *)

\* generate_system_report has ended, by returning or by raising.
Ended == pc = "idle" /\ run > 0
Returned == Ended /\ result # Raised
Ran(probe) == \E i \in DOMAIN trace : trace[i] = probe
Logged(note) == \E i \in DOMAIN log : log[i] = note
TextWritten == TextName \in DOMAIN files
Text == files[TextName].body

\* The fields of rep that fault f does not own have the values the probes
\* give on the healthy host.
OtherFieldsAsHealthy(f, rep) ==
  LET o == FaultOwner(f)
  IN /\ o # "system_info" => rep.system_info = system_info(Healthy).value
     /\ o # "disk_usage" => rep.disk_usage = disk_usage_check(Healthy).value
     /\ o # "memory_usage" => rep.memory_usage = memory_check(Healthy).value
     /\ o # "network_interfaces" =>
          rep.network_interfaces = network_interfaces(Healthy).value
     /\ o # "process_status" => rep.process_status = process_monitor(Healthy).value
     /\ o # "service_status" => rep.service_status = check_services(Healthy).value
     /\ o # "users" => rep.users = list_users(Healthy).value
     /\ o # "failed_logins" =>
          rep.security_check.failed_logins = Len(failed_attempts(Healthy, 0))
     /\ o # "permission_issues" =>
          rep.security_check.permission_issues = check_file_permissions(Healthy).value
     /\ o # "cleanup_recommendations" =>
          rep.cleanup_recommendations = system_cleanup(Healthy).value

\* C1: for every single failure of a probe's dependency, the run on the host
\* with that failure injected ends by returning a report, and every field
\* the failing probe does not own has the value it has on the healthy host.
C1_FailureIsolation ==
  \A f \in Faults :
    (host = Inject(Healthy, f) /\ Ended) =>
      (result # Raised /\ OtherFieldsAsHealthy(f, result))

\* C1, the part the code keeps: the same for every failure but that of
\* writing the auxiliary failed_logins artifact.
C1_IsolationButAux ==
  \A f \in Faults \ {"aux_not_writable"} :
    (host = Inject(Healthy, f) /\ Ended) =>
      (result # Raised /\ OtherFieldsAsHealthy(f, result))

\* C2: every returned report holds a memory_usage that is not null and an
\* entry for every watched process name and every watched service name.
C2_StructurallyComplete ==
  Returned =>
    /\ result.memory_usage # None
    /\ DOMAIN result.process_status = SeqToSet(ProcessNames)
    /\ DOMAIN result.service_status = SeqToSet(Services)

\* The class the specification gives a user.
Class(uid, can_login) ==
  IF uid < 1000 THEN "system" ELSE IF can_login THEN "regular" ELSE "service"

\* The count a log line of list_users carries.
LoggedCount(msg) == log[CHOOSE i \in DOMAIN log : log[i].msg = msg].n
CountsLogged == \E i \in DOMAIN log : log[i].msg = "Total users"

\* The user database of the specification's example.
ExamplePasswd ==
  <<PasswdLine("u", 0, "/bin/bash"), PasswdLine("u", 1001, "/usr/sbin/nologin")>>

\* C3: every parsed user is in exactly the class its (uid, can_login) gives,
\* in list_users and in the text renderer; the three counts that list_users
\* logs and that the text report shows sum to the number of users; the
\* example database gives 1 system, 1 service and 0 regular users.
C3_Classification ==
  Ran("list_users") =>
    /\ \A i \in DOMAIN report.users :
         LET u == report.users[i]
             c == Class(u.uid, u.can_login)
         IN /\ list_users_system(u) <=> c = "system"
            /\ list_users_regular(u) <=> c = "regular"
            /\ list_users_service(u) <=> c = "service"
            /\ text_system(u) <=> c = "system"
            /\ text_regular(u) <=> c = "regular"
            /\ text_service(u) <=> c = "service"
    /\ CountsLogged =>
         /\ LoggedCount("Total users") = Len(report.users)
         /\ LoggedCount("Regular users") + LoggedCount("System users")
              + LoggedCount("Service users") = Len(report.users)
    /\ (TextWritten /\ Text.users.available) =>
         /\ Text.users.total = Len(report.users)
         /\ Text.users.regular + Text.users.system + Text.users.service
              = Len(report.users)
    /\ host.passwd.lines = ExamplePasswd =>
         /\ LoggedCount("System users") = 1
         /\ LoggedCount("Service users") = 1
         /\ LoggedCount("Regular users") = 0
         /\ TextWritten =>
              (Text.users.system = 1 /\ Text.users.service = 1
               /\ Text.users.regular = 0)

\* C3, its case: the example database has been parsed and rendered.
C3_Witness ==
  /\ host.passwd.lines = ExamplePasswd
  /\ TextWritten
  /\ Text.users.system = 1
  /\ Text.users.service = 1

\* A call of run_command whose command exited with a non-zero status, and
\* one that timed out or could not be executed.
NonZeroExit(c) == c.outcome.kind = "exit" /\ c.outcome.rc # 0
Failed(c) == c.outcome.kind \in {"timeout", "error"}

\* C4: what run_command returns for a command that exits with a non-zero
\* status is a value (not None), and differs from what it returns for a
\* command that timed out or could not be executed.
C4_NonZeroExitDistinguishable ==
  \A i \in DOMAIN cmd_calls :
    NonZeroExit(cmd_calls[i]) =>
      /\ cmd_calls[i].returned # None
      /\ \A j \in DOMAIN cmd_calls :
           Failed(cmd_calls[j]) => cmd_calls[i].returned # cmd_calls[j].returned

\* C5: a step never removes or replaces a structured report written
\* earlier, and the text report written by a run is that run's.
C5_NoReportOverwritten ==
  [][/\ \A n \in DOMAIN files :
          n[1] = "system_report" => (n \in DOMAIN files' /\ files'[n] = files[n])
     /\ (pc = "save_text" /\ pc' = "idle" /\ result' # Raised) =>
          (TextName \in DOMAIN files' /\ files'[TextName].run = run)]_vars

\* C5, the part the code keeps: the text report is one file of a fixed name
\* that holds the latest run that rendered it, and a structured report is
\* written under the name of the second it is written in.
C5_TextReportIsLatest ==
  [][/\ (pc = "save_text" /\ pc' = "idle" /\ result' # Raised) =>
          (TextName \in DOMAIN files' /\ files'[TextName].run = run)
     /\ (pc = "write_json" /\ pc' = "save_text") =>
          (ReportName(clock) \in DOMAIN files' /\ files'[ReportName(clock)].run = run)]_vars

\* The raw counts of a path make more than 80 percent.
Above80(d) == d.used * 100 > 80 * d.total

\* C6: in the Disk Usage section of the text report, the entry of a path
\* carries the warning marker exactly if used / total * 100 on the raw
\* counts is above 80: with 85% it does, with 50% and with exactly 80% it
\* does not, whatever the truncated GB figures are.
C6_DiskWarning ==
  TextWritten =>
    /\ \A p \in DOMAIN Text.disk : Text.disk[p].warning <=> Above80(host.disk[p])
    /\ host.disk["/"] = Disk(10240, 8704) => Text.disk["/"].warning
    /\ host.disk["/"] = Disk(10240, 5120) => ~Text.disk["/"].warning
    /\ host.disk["/"] = Disk(10240, 8192) => ~Text.disk["/"].warning

\* C6, its case: a text report for a host whose "/" is at 85% of the raw
\* counts while its truncated figures, 8 of 10 GB, make 80%.
C6_Witness ==
  /\ TextWritten
  /\ host.disk["/"] = Disk(10240, 8704)
  /\ Text.disk["/"].used = 8
  /\ Text.disk["/"].total = 10
  /\ Text.disk["/"].warning

\* MemTotal and MemAvailable as memory_check reads them.
MemTotalKb == meminfo_get(host.meminfo.lines, "MemTotal")
MemAvailKb == meminfo_get(host.meminfo.lines, "MemAvailable")
MemoryProbed == Ran("memory") /\ report.memory_usage # None
MemoryWarningLogged == Logged(Note("WARNING: Memory usage is above 85%!", ""))

\* C7: the memory probe reports used = total - MemAvailable and
\* usage_percent = used / total * 100; the warning is logged, and is in the
\* text report, exactly if that percentage is above 85. With MemTotal
\* 16000000 and MemAvailable 1000000 the percentage is 93.75 and the warning
\* is there; with MemAvailable 4000000 it is 75.0 and there is no warning.
C7_MemoryWarning ==
  MemoryProbed =>
    LET used == MemTotalKb - MemAvailKb
        above == used * 100 > 85 * MemTotalKb
        mem == report.memory_usage
    IN /\ mem.used_gb = Rat(used, 1024 * 1024)
       /\ mem.usage_percent = Rat(used * 100, MemTotalKb)
       /\ MemoryWarningLogged <=> above
       /\ TextWritten => (Text.memory.shown /\ (Text.memory.warning <=> above))
       /\ (MemTotalKb = 16000000 /\ MemAvailKb = 1000000) =>
            (mem.usage_percent = Rat(9375, 100) /\ MemoryWarningLogged)
       /\ (MemTotalKb = 16000000 /\ MemAvailKb = 4000000) =>
            (mem.usage_percent = Rat(75, 1) /\ ~MemoryWarningLogged)

\* C7, its case: the text report of a host with 16000000 kB of which
\* 1000000 kB are available carries the memory warning.
C7_Witness ==
  /\ MemoryProbed
  /\ MemTotalKb = 16000000
  /\ MemAvailKb = 1000000
  /\ TextWritten
  /\ Text.memory.warning
  /\ MemoryWarningLogged

\* The memory-info input of the specification's example.
ExampleMemory == MemoryProbed /\ MemTotalKb = 16000000 /\ MemAvailKb = 4000000

\* C8 as stated: for MemTotal 16000000 kB and MemAvailable 4000000 kB the
\* used figure, to two decimals, is between 12.00 and 12.01 GB and the
\* percentage is 75.0.
C8_UsedTwelveGB ==
  ExampleMemory =>
    /\ Fmt(report.memory_usage.used_gb, 2) \in 1200..1201
    /\ report.memory_usage.usage_percent = Rat(75, 1)

\* C8 as amended: for MemTotal 16000000 kB and MemAvailable 4000000 kB the
\* used figure is 12000000 / 1048576 GB, which is 11.44 to two decimals in
\* the report and in the text report, and the percentage is 75.0.
C8_UsedGiB ==
  ExampleMemory =>
    /\ Fmt(report.memory_usage.used_gb, 2) = 1144
    /\ report.memory_usage.usage_percent = Rat(75, 1)
    /\ TextWritten => (Text.memory.used = 1144 /\ Text.memory.usage = 750)

\* C8, its case: the example input has been probed and rendered.
C8_Witness == ExampleMemory /\ TextWritten /\ Text.memory.used = 1144

Shadow == host.perms["/etc/shadow"]
Passwd == host.perms["/etc/passwd"]
Findings == SeqToSet(report.security_check.permission_issues)
ShadowFinding == Note("is readable by others", "/etc/shadow")
PasswdFinding == Note("is writable by others", "/etc/passwd")

\* C9: the file_permissions probe reports the shadow file exactly if its
\* world (other) read bit is set, and the password file exactly if its
\* world-writable bit is set; a shadow file of mode 0640 gives no finding;
\* a missing file gives a 'not found' line and no finding.
C9_WorldBitsOnly ==
  Ran("file_permissions") =>
    /\ ShadowFinding \in Findings <=>
         (Shadow.exists /\ BitAnd(Shadow.mode, Oct(0, 0, 4)) # 0)
    /\ PasswdFinding \in Findings <=>
         (Passwd.exists /\ BitAnd(Passwd.mode, Oct(0, 0, 2)) # 0)
    /\ (Shadow.exists /\ Shadow.mode = Oct(6, 4, 0)) => ShadowFinding \notin Findings
    /\ \A i \in DOMAIN CriticalFiles :
         ~host.perms[CriticalFiles[i]].exists =>
           Logged(Note("File not found", CriticalFiles[i]))

\* C9, the part the code keeps: when both lookups of owner and group
\* succeed, the shadow file is reported exactly if any group or other bit
\* is set and the password file exactly if its world-writable bit is set; a
\* missing file gives a 'not found' line and no finding.
C9_GroupOrWorldBits ==
  Ran("file_permissions") =>
    /\ ShadowFinding \in Findings <=>
         (Shadow.exists /\ ~perm_raises(Shadow) /\ Shadow.mode % 64 # 0)
    /\ PasswdFinding \in Findings <=>
         (Passwd.exists /\ ~perm_raises(Passwd) /\ (Passwd.mode \div 2) % 2 = 1)
    /\ \A i \in DOMAIN CriticalFiles :
         ~host.perms[CriticalFiles[i]].exists =>
           Logged(Note("File not found", CriticalFiles[i]))

\* A candidate log file exists and cannot be read for lack of permission:
\* the access check refuses it, or opening it raises PermissionError.
Unreadable(f) == f.exists /\ (~f.access \/ f.open = "EACCES")

\* C10: in the failed_logins probe, every candidate file that exists and
\* cannot be read for lack of permission has a permission-denied line in
\* the log, a file that does not exist has none, and in both cases the
\* later candidate files and lastb are still examined.
C10_PermissionDeniedLogged ==
  Ran("failed_logins") =>
    \A i \in DOMAIN LogFiles :
      LET f == host.authlogs[LogFiles[i]]
      IN /\ Unreadable(f) => Logged(Note("Permission denied accessing", LogFiles[i]))
         /\ ~f.exists => ~Logged(Note("Permission denied accessing", LogFiles[i]))
         /\ (Unreadable(f) \/ ~f.exists) =>
              /\ \A j \in DOMAIN LogFiles :
                   (j > i /\ log_file_opened(host.authlogs[LogFiles[j]])) =>
                     Logged(Note("Checking", LogFiles[j]))
              /\ host.lastb.status = "missing" =>
                   Logged(Note("Could not run 'lastb' command", ""))

\* C10, the part the code keeps: the permission-denied line is logged
\* exactly for a file that passed the access check and then raised
\* PermissionError on opening; a file that is missing or that the access
\* check refuses leaves no line; the later candidates and lastb are still
\* examined.
C10_DeniedOnlyOnOpen ==
  Ran("failed_logins") =>
    \A i \in DOMAIN LogFiles :
      LET f == host.authlogs[LogFiles[i]]
      IN /\ Logged(Note("Permission denied accessing", LogFiles[i])) <=>
              (f.exists /\ f.access /\ f.open = "EACCES")
         /\ \A j \in DOMAIN LogFiles :
              (j > i /\ log_file_opened(host.authlogs[LogFiles[j]])) =>
                Logged(Note("Checking", LogFiles[j]))
         /\ host.lastb.status = "missing" =>
              Logged(Note("Could not run 'lastb' command", ""))

\* The failed_logins_<stamp> artifacts, and the entries the probe collected
\* from the candidate files and from lastb, in collection order.
AuxFiles == {n \in DOMAIN files : n[1] = "failed_logins"}
Collected == failed_attempts(host, clock)
AuxHoldsCollected ==
  \A n \in AuxFiles :
    /\ files[n].body = Collected
    /\ report.security_check.failed_logins = Len(Collected)

\* C11 as stated: once the failed_logins probe has run, the auxiliary
\* artifact exists exactly if the probe collected at least one entry; it
\* then holds exactly the collected entries in collection order, and the
\* report's failed-login count is their number.
C11_AuxIffCollected ==
  Ran("failed_logins") =>
    /\ AuxFiles # {} <=> Collected # <<>>
    /\ AuxHoldsCollected

\* What does hold: the auxiliary artifact exists exactly if the probe
\* collected at least one entry and the artifact could be opened for
\* writing; it then holds exactly the collected entries in collection
\* order, and the report's failed-login count is their number.
C11_AuxIffCollectedAndWritable ==
  Ran("failed_logins") =>
    /\ AuxFiles # {} <=> (Collected # <<>> /\ "failed_logins" \in host.writable)
    /\ AuxHoldsCollected

\* An artifact holding an entry of a log file followed by an
\* entry of lastb, and a report counting both.
C11_AuxOfBothSources ==
  /\ Ran("failed_logins")
  /\ \E n \in AuxFiles :
       /\ Len(files[n].body) = 2
       /\ files[n].body[1].entry = "Failed password for root"
       /\ files[n].body[2].entry = "root ssh:notty 10.9.8.7"
  /\ report.security_check.failed_logins = 2

\* The order of the probes and of the two renderers in one invocation.
ProbeOrder ==
  <<"system_info", "disk_usage", "memory", "network_interfaces",
    "process_monitor", "services", "list_users", "failed_logins",
    "file_permissions", "cleanup_scan">>
Renderers == <<"structured_renderer", "text_renderer">>
IsPrefix(s, t) == Len(s) <= Len(t) /\ s = SubSeq(t, 1, Len(s))
RenderedSameReport ==
  /\ Ran("structured_renderer") => files[ReportName(clock)].body = report
  /\ Ran("text_renderer") => Text = render_text(report, clock) /\ result = report

\* C12: in every invocation of generate_system_report each probe has run
\* exactly once, in the fixed order, by the time the invocation ends; the
\* structured renderer runs only after all of them, the text renderer only
\* after the structured renderer, and both render the same report.
C12_EveryProbeOnceInOrder ==
  Ended =>
    /\ IsPrefix(ProbeOrder, trace)
    /\ IsPrefix(trace, ProbeOrder \o Renderers)
    /\ RenderedSameReport

\* What does hold: whatever has run so far is a prefix of the fixed order (no
\* probe twice, none out of order, no renderer before the last probe), and
\* both renderers render the same report.
C12_OrderUntilRaise ==
  /\ IsPrefix(trace, ProbeOrder \o Renderers)
  /\ RenderedSameReport

\* An invocation that ran all ten probes and both renderers.
C12_FullRun == Ended /\ trace = ProbeOrder \o Renderers

\* The two strategies for the serial number: the read of the DMI sysfs file
\* fails when cat cannot be run or exits non-zero (file missing or
\* unreadable); dmidecode fails when it is missing or exits non-zero.
DmiReadFails == host.cat # "present" \/ ~host.dmi_serial.ok
DmidecodeFails == host.dmidecode.status # "ok"
Serial == report.system_info.serial_number

\* C13: once system_info has run, a failed read of the DMI sysfs file means
\* that dmidecode was invoked as the fallback, and the serial number is
\* "Unknown" only if both the read and dmidecode failed.
C13_DmidecodeFallback ==
  Ran("system_info") =>
    /\ DmiReadFails => dmidecode_invoked(host)
    /\ Serial = "Unknown" => DmiReadFails /\ DmidecodeFails

\* What does hold: dmidecode is the fallback only when cat itself could not
\* be run; a read that exits non-zero leaves the serial number "Unknown"
\* whatever dmidecode would answer.
C13_FallbackOnlyWhenCatRaises ==
  Ran("system_info") =>
    /\ dmidecode_invoked(host) <=> host.cat # "present"
    /\ Serial = "Unknown" <=>
         \/ host.cat = "present" /\ ~host.dmi_serial.ok
         \/ host.cat # "present" /\ DmidecodeFails

\* The serial number taken from dmidecode after cat could not be run.
C13_SerialFromDmidecode ==
  /\ Ran("system_info")
  /\ host.cat # "present"
  /\ Serial = host.dmidecode.out
  /\ Serial # "Unknown"

\* The listing the parser was given, and what the claim says of it: the
\* index line that an address line follows most closely, the last index line
\* of a name, and the address lines of an interface context in input order.
Listing == host.ip.lines
IsIndexLine(i) == Listing[i][1] \in {"if", "ifbad"}
IsAddressLine(j) == Listing[j][1] = "inet"
Opener(j) ==
  IF \E i \in 1..(j - 1) : IsIndexLine(i)
  THEN CHOOSE i \in 1..(j - 1) :
         IsIndexLine(i) /\ \A k \in (i + 1)..(j - 1) : ~IsIndexLine(k)
  ELSE 0
LastOpening(name) ==
  CHOOSE i \in DOMAIN Listing :
    /\ Listing[i] = <<"if", name>>
    /\ \A k \in (i + 1)..Len(Listing) : Listing[k] # <<"if", name>>
FirstOpening(name) ==
  CHOOSE i \in DOMAIN Listing :
    /\ Listing[i] = <<"if", name>>
    /\ \A k \in 1..(i - 1) : Listing[k] # <<"if", name>>
AddressLinesOf(name) ==
  SelectSeq([j \in DOMAIN Listing |-> j],
            LAMBDA j : IsAddressLine(j) /\ Opener(j) = LastOpening(name))
AddressesOf(name) ==
  [k \in DOMAIN AddressLinesOf(name) |-> Listing[AddressLinesOf(name)[k]][2]]
Interfaces == report.network_interfaces
EveryIndexLineNamed == \A i \in DOMAIN Listing : Listing[i][1] # "ifbad"

\* C14: once network_interfaces has parsed a listing of `ip addr show`
\* (every index line carries its interface name), the result has one entry
\* per opened name, in the order of first opening; the addresses of an entry
\* are exactly those of the address lines whose most recent index line is the
\* one that opened it, in input order; an address line before any index line
\* is in no entry, and an interface without address lines has the empty list.
C14_ParserStateMachine ==
  (Ran("network_interfaces") /\ host.ip.status = "ok" /\ EveryIndexLineNamed) =>
    /\ {Interfaces[i].name : i \in DOMAIN Interfaces}
         = {Listing[i][2] : i \in {k \in DOMAIN Listing : Listing[k][1] = "if"}}
    /\ \A i, k \in DOMAIN Interfaces :
         i < k => FirstOpening(Interfaces[i].name) < FirstOpening(Interfaces[k].name)
    /\ \A i \in DOMAIN Interfaces :
         Interfaces[i].addresses = AddressesOf(Interfaces[i].name)

\* C14, its case: an address line before any interface, an interface with an
\* address line, and an interface with none.
C14_Witness ==
  /\ Ran("network_interfaces")
  /\ Listing = << <<"inet", "10.0.0.5/24">>, <<"if", "lo">>,
                  <<"inet", "127.0.0.1/8">>, <<"if", "eth0">> >>
  /\ Interfaces = << [name |-> "lo", addresses |-> <<"127.0.0.1/8">>],
                     [name |-> "eth0", addresses |-> <<>>] >>

\* The records of the user database as read, the well-formed ones among
\* them (seven fields or more, numeric uid and gid), and the entries the
\* claim expects: one per well-formed record, in file order.
Records == host.passwd.lines
WellFormed(parts) ==
  Len(parts) >= 7 /\ parts[3] # NonNumeric /\ parts[4] # NonNumeric
Unparsable(parts) == Len(parts) >= 7 /\ ~WellFormed(parts)
EntriesOf(records) ==
  [i \in DOMAIN SelectSeq(records, WellFormed) |->
     user_info(SelectSeq(records, WellFormed)[i], host.homes)]
BeforeFirstUnparsable ==
  IF \E i \in DOMAIN Records : Unparsable(Records[i])
  THEN SubSeq(Records, 1,
              (CHOOSE i \in DOMAIN Records :
                 Unparsable(Records[i])
                 /\ \A k \in 1..(i - 1) : ~Unparsable(Records[k])) - 1)
  ELSE Records

\* C15: once list_users has read the user database, the users it returned
\* are, in file order, exactly one entry per well-formed record, wherever
\* the malformed records (too few fields, non-numeric uid) stand among them.
C15_MalformedSkipped ==
  (Ran("list_users") /\ host.passwd.readable) =>
    report.users = EntriesOf(Records)

\* What does hold: records with too few fields are skipped, and the users
\* returned are the well-formed records before the first record whose uid
\* or gid is not a number.
C15_UpToFirstUnparsable ==
  (Ran("list_users") /\ host.passwd.readable) =>
    report.users = EntriesOf(BeforeFirstUnparsable)

\* A short record skipped, the well-formed record after it returned.
C15_ShortRecordSkipped ==
  /\ Ran("list_users")
  /\ Records = << <<"short", "x", 5>>, PasswdLine("u", 1000, "/bin/bash") >>
  /\ Len(report.users) = 1
  /\ report.users[1].uid = 1000

====
